---- MODULE Spec2Model ----
(***************************************************************************)
(* write-collab: the document session and reconciliation layer.            *)
(*                                                                         *)
(* The model covers the durable store (tables documents and versions), the *)
(* server-side replica Hocuspocus holds per document, the onLoadDocument   *)
(* and onChange hooks, the admin restore and title routes, the SSE fan-out *)
(* and the browser client's restore listener.                              *)
(*                                                                         *)
(* Every awaited query is one step: the moment PostgreSQL executes the     *)
(* statement.  Handlers of different requests run interleaved, because     *)
(* query() takes a connection of its own from the pool for each statement. *)
(* The conditional snapshot INSERT is one statement, executed under READ   *)
(* COMMITTED: it evaluates NOT EXISTS on its snapshot and inserts after,   *)
(* without a lock, so it takes two steps.                                  *)
(*                                                                         *)
(* Columns created_at and updated_at of documents are not modelled: no     *)
(* handler reads them back.                                                *)
(***************************************************************************)
EXTENDS Integers, Sequences, FiniteSets, TLC

\* ---------------------------------------------------------------- bounds
Docs == {"d1", "d2"}          \* document identifiers
Clients == {1, 2}             \* browsers: a Y.Doc's clientID, and its EventSource
Chars == {"a"}                \* characters a peer types
TitleInputs == {[s |-> "T", length |-> 1]}   \* titles sent, trimmed: text and length
LongTitles == {[s |-> "L", length |-> 600]}  \* a title of 600 characters
MaxEvents == 3                \* merge events delivered per document
MaxInFlight == 2              \* onChange invocations in flight together
MaxKeys == 3                  \* a browser types while its items number fewer
MaxRestores == 2              \* restore requests served
MaxTitles == 1                \* title requests served
MaxLoads == 2                 \* times a document is loaded into a session
MaxTime == 45                 \* the clock stops here
TickStep == 15                \* seconds between two observations of the clock

\* ------------------------------------------------------ program constants
SnapshotWindow == 30          \* INTERVAL '30 seconds'
TitleLimit == 512             \* title.length > 512
ServerClientBase == 10        \* clientIDs of server-side Y.Docs start here

\* References to Set objects: one per Set that can be referenced at a time,
\* by the map or by the closure of an open response.
SetRefs == 1..(Cardinality(Clients) + Cardinality(Docs))

VARIABLES
  columns,     \* the columns table documents has
  documents,   \* table documents: id -> <<>> or <<row>>
  versions,    \* table versions, in insertion order; a row's id is its index
  now,         \* NOW()
  session,     \* Hocuspocus' loaded documents: id -> <<>> or <<Y.Doc>>
  epoch,       \* id -> how many times the document has been loaded
  events,      \* id -> merge events delivered so far
  changes,     \* onChange invocations in flight
  loading,     \* per id, the onLoadDocument invocations awaiting their INSERT
  restores,    \* restore requests, in flight and finished
  channels,    \* sse.ts channels: id -> <<>> (no entry) or <<reference to a Set>>
  sets,        \* the Set objects: reference -> the clients in the Set
  sinks,       \* sink -> <<>> or <<the closure of its subscribe call and the
               \*   state of its response: [docId, set, open]>>
  inbox,       \* sink -> the events written to it, oldest first
  ydoc,        \* browser -> its Y.Doc
  seen,        \* browser -> restore events its listener has handled
  titles       \* title requests, in flight and finished

vars == <<columns, documents, versions, now, session, epoch, events, changes, loading, restores, channels, sets, sinks, inbox, ydoc, seen, titles>>

store == <<documents, versions>>
fanout == <<channels, sets, sinks, inbox>>
clients == <<ydoc, seen>>

None == <<>>
Some(x) == <<x>>

\* ------------------------------------------------------------ Y.Doc, Y.Text
\* A Y.Doc is a struct store (items) and a delete set (dels).  An item is
\* [k, c, txt]: c is the clientID that created it, k orders it; every insert
\* of the program is at index 0, so a newer item sorts before the older ones
\* and items created concurrently at the same k sort by clientID.
EmptyDoc == [items |-> {}, dels |-> {}]

ItemId(i) == <<i.k, i.c>>

MaxK(doc) ==
  IF doc.items = {} THEN 0
  ELSE CHOOSE m \in {i.k : i \in doc.items} : \A i \in doc.items : i.k <= m

LiveItems(doc) == {i \in doc.items : ItemId(i) \notin doc.dels}

Precedes(i, j) == i.k > j.k \/ (i.k = j.k /\ i.c < j.c)

RECURSIVE Flatten(_)
Flatten(S) ==
  IF S = {} THEN ""
  ELSE LET h == CHOOSE i \in S : \A j \in S \ {i} : Precedes(i, j)
       IN h.txt \o Flatten(S \ {h})

\* ytext.toString()
toString(doc) == Flatten(LiveItems(doc))

\* ytext.length
length(doc) == Len(toString(doc))

\* ytext.insert(0, t) by the Y.Doc whose clientID is c; inserting "" does nothing
insert(doc, c, t) ==
  IF t = "" THEN doc
  ELSE [doc EXCEPT !.items = @ \cup {[k |-> MaxK(doc) + 1, c |-> c, txt |-> t]}]

\* ytext.delete(0, ytext.length)
deleteAll(doc) == [doc EXCEPT !.dels = @ \cup {ItemId(i) : i \in doc.items}]

\* Y.encodeStateAsUpdate(doc): every struct and the delete set
encodeStateAsUpdate(doc) == [items |-> doc.items, dels |-> doc.dels]

\* Y.applyUpdate(doc, update): integrate the structs and deletions not yet known
applyUpdate(doc, update) ==
  [items |-> doc.items \cup update.items, dels |-> doc.dels \cup update.dels]

\* Stored bytes that are not an update Y.applyUpdate can decode: an update
\* the program wrote holds only items numbered from 1.
Corrupt == [items |-> {[k |-> 0, c |-> 0, txt |-> ""]}, dels |-> {}]

\* Y.applyUpdate decodes the update; on bytes it cannot decode it throws.
Decodes(update) == \A i \in update.items : i.k > 0

\* ---------------------------------------------------------------- schema
\* migrate(): the columns of table documents it creates (CREATE TABLE IF NOT
\* EXISTS) or adds (ALTER TABLE ... ADD COLUMN IF NOT EXISTS title).
migrate == {"id", "created_at", "updated_at", "current_text", "title"}

\* Table documents of a database that had the table, with its ystate column,
\* before migrate() ran: CREATE TABLE IF NOT EXISTS leaves it as it is.
Deployed == migrate \cup {"ystate"}

\* ------------------------------------------------------------------ Init
\* The server starts on a deployed database without rows.
Init ==
  /\ columns = Deployed
  /\ documents = [d \in Docs |-> None]
  /\ versions = <<>>
  /\ now = 0
  /\ session = [d \in Docs |-> None]
  /\ epoch = [d \in Docs |-> 0]
  /\ events = [d \in Docs |-> 0]
  /\ changes = {}
  /\ loading = [d \in Docs |-> 0]
  /\ restores = {}
  /\ channels = [d \in Docs |-> None]
  /\ sets = [r \in SetRefs |-> {}]
  /\ sinks = [s \in Clients |-> None]
  /\ inbox = [s \in Clients |-> <<>>]
  /\ ydoc = [c \in Clients |-> EmptyDoc]
  /\ seen = [c \in Clients |-> 0]
  /\ titles = {}

\* ----------------------------------------------------- POST /admin/docs
\* INSERT INTO documents(id, current_text, title) VALUES($1, '', 'Untitled')
\* under an identifier nanoid has just drawn.
NewDocument(d) ==
  /\ documents[d] = None
  /\ documents' = [documents EXCEPT
       ![d] = Some([current_text |-> "", ystate |-> None, title |-> "Untitled"])]
  /\ UNCHANGED <<columns, versions, now, session, epoch, events, changes, loading, restores, fanout, clients, titles>>

\* ------------------------------------------------------- onLoadDocument
\* The row INSERT INTO documents(id, current_text, ystate) creates; title
\* takes the column default.
NewRow == [current_text |-> "", ystate |-> None, title |-> ""]

\* onLoadDocument without its backfill branch.
LoadedDocNoBackfill(row, clientID) ==
  IF row.ystate # None THEN applyUpdate(EmptyDoc, row.ystate[1]) ELSE EmptyDoc

\* The Y.Doc onLoadDocument returns for an existing row.
LoadedDoc(row, clientID) ==
  IF row.ystate # None THEN applyUpdate(EmptyDoc, row.ystate[1])
  ELSE IF row.current_text # "" THEN insert(EmptyDoc, clientID, row.current_text)
  ELSE EmptyDoc

\* The SELECT of onLoadDocument executes; for an existing row the hook
\* returns without another await.  The statement names column ystate: on a
\* table without it PostgreSQL rejects the statement and the hook throws.
\* Y.applyUpdate is called outside any try: when it throws, the hook throws.
onLoadDocument(d) ==
  /\ session[d] = None
  /\ epoch[d] < MaxLoads
  /\ epoch' = [epoch EXCEPT ![d] = @ + 1]
  /\ IF "ystate" \notin columns
     THEN UNCHANGED <<session, loading>>
     ELSE IF documents[d] = None
     THEN /\ loading' = [loading EXCEPT ![d] = @ + 1]
          /\ UNCHANGED session
     ELSE IF documents[d][1].ystate # None /\ ~Decodes(documents[d][1].ystate[1])
     THEN UNCHANGED <<session, loading>>
     ELSE /\ session' = [session EXCEPT
               ![d] = Some(LoadedDoc(documents[d][1], ServerClientBase + epoch[d]))]
          /\ UNCHANGED loading
  /\ UNCHANGED <<documents, versions, now, columns, events, changes, restores, fanout, clients, titles>>

\* Hocuspocus loads a document for the first connection that names it; the
\* connections that follow share that load.
LoadSelect(d) ==
  /\ loading[d] = 0
  /\ onLoadDocument(d)

\* An INSERT that replaces the row it conflicts with (ON CONFLICT DO UPDATE).
LoadInsertOverwrites(d) ==
  /\ loading[d] > 0
  /\ loading' = [loading EXCEPT ![d] = @ - 1]
  /\ documents' = [documents EXCEPT ![d] = Some(NewRow)]
  /\ session' = [session EXCEPT ![d] = Some(EmptyDoc)]
  /\ UNCHANGED <<versions, now, columns, epoch, events, changes, restores, fanout, clients, titles>>

\* INSERT ... ON CONFLICT (id) DO NOTHING executes and the hook returns the
\* empty Y.Doc.
LoadInsert(d) ==
  /\ loading[d] > 0
  /\ loading' = [loading EXCEPT ![d] = @ - 1]
  /\ documents' = [documents EXCEPT ![d] = IF @ = None THEN Some(NewRow) ELSE @]
  /\ session' = [session EXCEPT ![d] = Some(EmptyDoc)]
  /\ UNCHANGED <<versions, now, columns, epoch, events, changes, restores, fanout, clients, titles>>

\* Hocuspocus drops the loaded document when its last connection closes.
Unload(d) ==
  /\ session[d] # None
  /\ session' = [session EXCEPT ![d] = None]
  /\ UNCHANGED <<documents, versions, now, columns, epoch, events, changes, loading, restores, fanout, clients, titles>>

\* ------------------------------------------------------------- onChange
\* onChange taking only the text of the newest items instead of the whole text.
onChangeNewest(d, doc, n) ==
  [id |-> d, seq |-> n,
   text |-> Flatten({i \in LiveItems(doc) : i.k = MaxK(doc)}),
   update |-> encodeStateAsUpdate(doc), pc |-> "update", ts |-> 0]

\* The synchronous head of onChange: text and update are taken from the
\* document before the first await.
onChange(d, doc, n) ==
  [id |-> d, seq |-> n, text |-> toString(doc),
   update |-> encodeStateAsUpdate(doc), pc |-> "update", ts |-> 0]

\* Hocuspocus applies a peer's update to the loaded document; an update that
\* changes it fires onChange.
Deliver(d, update) ==
  /\ session[d] # None
  /\ events[d] < MaxEvents
  /\ Cardinality(changes) < MaxInFlight
  /\ LET doc == applyUpdate(session[d][1], update) IN
       /\ doc # session[d][1]
       /\ session' = [session EXCEPT ![d] = Some(doc)]
       /\ changes' = changes \cup {onChange(d, doc, events[d] + 1)}
  /\ events' = [events EXCEPT ![d] = @ + 1]
  /\ UNCHANGED <<documents, versions, now, columns, epoch, loading, restores, fanout, clients, titles>>

\* A connected peer, up to date with the server, types a character.
PeerTypes(d) ==
  \E c \in Clients, ch \in Chars :
    /\ session[d] # None
    /\ Deliver(d, encodeStateAsUpdate(insert(session[d][1], c, ch)))

\* UPDATE documents SET current_text = $2, ystate = $3 WHERE id = $1
UpdateFromChange(row, h) ==
  [row EXCEPT !.current_text = h.text, !.ystate = Some(h.update)]

ChangeUpdate(h) ==
  /\ h \in changes
  /\ h.pc = "update"
  /\ "ystate" \in columns
  /\ documents' = [documents EXCEPT
       ![h.id] = IF @ = None THEN @ ELSE Some(UpdateFromChange(@[1], h))]
  /\ changes' = (changes \ {h}) \cup {[h EXCEPT !.pc = "gate"]}
  /\ UNCHANGED <<versions, now, columns, session, epoch, events, loading, restores, fanout, clients, titles>>

\* SELECT 1 FROM versions WHERE document_id = $1
\*   AND created_at > NOW() - INTERVAL '30 seconds'
RecentVersion(d, t) ==
  \E i \in 1..Len(versions) :
    /\ versions[i].document_id = d
    /\ versions[i].created_at > t - SnapshotWindow

\* The snapshot statement evaluates WHERE NOT EXISTS on its snapshot.
ChangeGate(h) ==
  /\ h \in changes
  /\ h.pc = "gate"
  /\ changes' = IF RecentVersion(h.id, now)
                THEN changes \ {h}
                ELSE (changes \ {h}) \cup {[h EXCEPT !.pc = "insert", !.ts = now]}
  /\ UNCHANGED <<documents, versions, now, columns, session, epoch, events, loading, restores, fanout, clients, titles>>

Version(d, t, at, who) ==
  [id |-> Len(versions) + 1, document_id |-> d, text |-> t, created_at |-> at,
   by |-> who]

\* The snapshot statement inserts its row.
ChangeInsert(h) ==
  /\ h \in changes
  /\ h.pc = "insert"
  /\ versions' = Append(versions, Version(h.id, h.text, h.ts, "merge"))
  /\ changes' = changes \ {h}
  /\ UNCHANGED <<documents, now, columns, session, epoch, events, loading, restores, fanout, clients, titles>>

\* A query of onChange rejects (store unavailable): the hook throws.
ChangeFail(h) ==
  /\ h \in changes
  /\ changes' = changes \ {h}
  /\ UNCHANGED <<documents, versions, now, columns, session, epoch, events, loading, restores, fanout, clients, titles>>

\* ------------------------------------------------------------- sse.ts
\* client.res.write(payload) succeeds while the response's connection is up.
Writable(s) == IF sinks[s] = None THEN FALSE ELSE sinks[s][1].open

\* channels.get(docId): the clients of the document's Set, none without entry.
Subscribers(d) == IF channels[d] = None THEN {} ELSE sets[channels[d][1]]

\* publish writing to the clients of every document.
publishToAll(d, event, data) ==
  [s \in Clients |->
     IF Writable(s)
     THEN Append(inbox[s], [event |-> event, data |-> data])
     ELSE inbox[s]]

\* publish with a loop that stops at the first write that throws.
publishUntilFailure(d, event, data) ==
  [s \in Clients |->
     IF s \in Subscribers(d) /\ \A x \in Subscribers(d) : Writable(x)
     THEN Append(inbox[s], [event |-> event, data |-> data])
     ELSE inbox[s]]

\* A publish whose payload overtakes what the response still holds.
publishInFront(d, event, data) ==
  [s \in Clients |->
     IF s \in Subscribers(d) /\ Writable(s)
     THEN <<[event |-> event, data |-> data]>> \o inbox[s]
     ELSE inbox[s]]

\* publish(docId, event, data): the payload is written to every client of the
\* document's Set, each write in a try of its own; without an entry nothing
\* is written.
publish(d, event, data) ==
  [s \in Clients |->
     IF s \in Subscribers(d) /\ Writable(s)
     THEN Append(inbox[s], [event |-> event, data |-> data])
     ELSE inbox[s]]

\* The clients whose write throws in a publish call: the catch is empty.
FailedWrites(d) == {s \in Subscribers(d) : ~Writable(s)}

\* -------------------------------- POST /admin/docs/:id/restore/:versionId
\* The SELECT of the restore without its document_id condition.
VersionFoundAnyDocument(d, versionId) == versionId \in 1..Len(versions)

\* SELECT text FROM versions WHERE id = $1 AND document_id = $2
VersionFound(d, versionId) ==
  /\ versionId \in 1..Len(versions)
  /\ versions[versionId].document_id = d

\* The request arrives and its SELECT executes; without a row it answers 404.
\* before, captured and unwritten record, for the request's history, the row
\* the UPDATE overwrote, the id of the Version the INSERT appended and the
\* clients publish could not write to.
RestoreSelect(d, versionId) ==
  /\ Cardinality(restores) < MaxRestores
  /\ restores' = restores \cup
       {[req |-> Cardinality(restores) + 1, id |-> d, versionId |-> versionId,
         text |-> IF VersionFound(d, versionId) THEN versions[versionId].text ELSE "",
         pc |-> IF VersionFound(d, versionId) THEN "update" ELSE "notfound",
         before |-> None, captured |-> 0, failedAt |-> "", unwritten |-> {}]}
  /\ UNCHANGED <<documents, versions, now, columns, session, epoch, events, changes, loading, fanout, clients, titles>>

\* The restore UPDATE without ystate = NULL.
UpdateFromRestoreKeepsState(row, h) == [row EXCEPT !.current_text = h.text]

\* UPDATE documents SET current_text = $2, ystate = NULL WHERE id = $1
UpdateFromRestore(row, h) ==
  [row EXCEPT !.current_text = h.text, !.ystate = None]

\* An UPDATE of the restore without its WHERE id = $1: every row is rewritten.
RestoreUpdateEveryRow(h) ==
  /\ h \in restores
  /\ h.pc = "update"
  /\ "ystate" \in columns
  /\ documents[h.id] # None
  /\ documents' = [d \in Docs |->
       IF documents[d] = None THEN None
       ELSE Some(UpdateFromRestore(documents[d][1], h))]
  /\ restores' = (restores \ {h}) \cup
       {[h EXCEPT !.pc = "insert", !.before = documents[h.id]]}
  /\ UNCHANGED <<versions, now, columns, session, epoch, events, changes, loading,
                 fanout, clients, titles>>

RestoreUpdate(h) ==
  /\ h \in restores
  /\ h.pc = "update"
  /\ "ystate" \in columns
  /\ documents[h.id] # None
  /\ documents' = [documents EXCEPT ![h.id] = Some(UpdateFromRestore(@[1], h))]
  /\ restores' = (restores \ {h}) \cup
       {[h EXCEPT !.pc = "insert", !.before = documents[h.id]]}
  /\ UNCHANGED <<versions, now, columns, session, epoch, events, changes, loading,
                 fanout, clients, titles>>

\* A restore that records itself by rewriting the newest version row of the
\* document instead of inserting a row.
RestoreInsertInPlace(h) ==
  /\ h \in restores
  /\ h.pc = "insert"
  /\ versions' = [versions EXCEPT ![h.versionId] = Version(h.id, h.text, now, "restore")]
  /\ restores' = (restores \ {h}) \cup
       {[h EXCEPT !.pc = "publish", !.captured = h.versionId]}
  /\ UNCHANGED <<documents, now, columns, session, epoch, events, changes, loading,
                 fanout, clients, titles>>

\* INSERT INTO versions(document_id, text) VALUES ($1, $2)
RestoreInsert(h) ==
  /\ h \in restores
  /\ h.pc = "insert"
  /\ versions' = Append(versions, Version(h.id, h.text, now, "restore"))
  /\ restores' = (restores \ {h}) \cup
       {[h EXCEPT !.pc = "publish", !.captured = Len(versions) + 1]}
  /\ UNCHANGED <<documents, now, columns, session, epoch, events, changes, loading,
                 fanout, clients, titles>>

\* The handler resumes after the INSERT: publish(id, 'restore', { text }) and
\* the redirect.
RestorePublish(h) ==
  /\ h \in restores
  /\ h.pc = "publish"
  /\ inbox' = publish(h.id, "restore", h.text)
  /\ restores' = (restores \ {h}) \cup
       {[h EXCEPT !.pc = "done", !.unwritten = FailedWrites(h.id)]}
  /\ UNCHANGED <<documents, versions, now, columns, session, epoch, events, changes, loading, channels, sets, sinks, clients, titles>>

\* A handler that swallows the rejection of its statement and carries on to
\* publish.
RestoreFailCarriesOn(h) ==
  /\ h \in restores
  /\ h.pc \in {"update", "insert"}
  /\ restores' = (restores \ {h}) \cup {[h EXCEPT !.pc = "publish", !.failedAt = h.pc]}
  /\ UNCHANGED <<documents, versions, now, columns, session, epoch, events, changes, loading, fanout, clients, titles>>

\* The UPDATE or the INSERT rejects (store unavailable): the handler throws
\* and the statements after it never run.
RestoreFail(h) ==
  /\ h \in restores
  /\ h.pc \in {"update", "insert"}
  /\ restores' = (restores \ {h}) \cup {[h EXCEPT !.pc = "failed", !.failedAt = h.pc]}
  /\ UNCHANGED <<documents, versions, now, columns, session, epoch, events, changes, loading, fanout, clients, titles>>

\* ------------------------------------------------------- title routes
TitleRequest(route, d, t, at) ==
  [req |-> Cardinality(titles) + 1, route |-> route, id |-> d, title |-> t, pc |-> at,
   unwritten |-> {}]

\* POST /admin/docs/:id/title arrives and awaits its UPDATE.
AdminTitle(d, t) ==
  /\ Cardinality(titles) < MaxTitles
  /\ titles' = titles \cup {TitleRequest("admin", d, t, "update")}
  /\ UNCHANGED <<documents, versions, now, columns, session, epoch, events, changes, loading, restores, fanout, clients>>

\* PATCH /api/documents/:id/title arrives: the length check, then its SELECT
\* executes; 400 for a long title, 404 without a row.
PatchTitle(d, t) ==
  /\ Cardinality(titles) < MaxTitles
  /\ titles' = titles \cup
       {TitleRequest("patch", d, t,
          IF t.length > TitleLimit THEN "invalid"
          ELSE IF documents[d] = None THEN "notfound" ELSE "update")}
  /\ UNCHANGED <<documents, versions, now, columns, session, epoch, events, changes, loading, restores, fanout, clients>>

\* An UPDATE of the title that also discards the stored replica state.
UpdateTitleDropsState(row, h) == [row EXCEPT !.title = h.title.s, !.ystate = None]

\* UPDATE documents SET title = $2 WHERE id = $1
UpdateTitle(row, h) == [row EXCEPT !.title = h.title.s]

TitleUpdate(h) ==
  /\ h \in titles
  /\ h.pc = "update"
  /\ documents' = [documents EXCEPT
       ![h.id] = IF @ = None THEN @ ELSE Some(UpdateTitle(@[1], h))]
  /\ titles' = (titles \ {h}) \cup {[h EXCEPT !.pc = "publish"]}
  /\ UNCHANGED <<versions, now, columns, session, epoch, events, changes, loading,
                 restores, fanout, clients>>

\* The handler resumes after the UPDATE: publish(id, 'title', { title }).
TitlePublish(h) ==
  /\ h \in titles
  /\ h.pc = "publish"
  /\ inbox' = publish(h.id, "title", h.title.s)
  /\ titles' = (titles \ {h}) \cup
       {[h EXCEPT !.pc = "done", !.unwritten = FailedWrites(h.id)]}
  /\ UNCHANGED <<documents, versions, now, columns, session, epoch, events, changes, loading, restores, channels, sets, sinks, clients>>

\* The UPDATE of a title route rejects (store unavailable): the handler
\* throws and publish never runs.
TitleFail(h) ==
  /\ h \in titles
  /\ h.pc = "update"
  /\ titles' = (titles \ {h}) \cup {[h EXCEPT !.pc = "failed"]}
  /\ UNCHANGED <<documents, versions, now, columns, session, epoch, events, changes, loading,
                 restores, fanout, clients>>

\* ------------------------------------------------------ client main.ts
\* The page of every browser modelled shows this document (getDocumentId).
docId == "d1"

\* The references in use: held by the map or by the closure of a response
\* whose close handler has not run.
Referenced ==
  {channels[e][1] : e \in {x \in Docs : channels[x] # None}}
    \cup {sinks[x][1].set : x \in {y \in Clients : sinks[y] # None}}

\* new Set()
NewSet == CHOOSE r \in SetRefs \ Referenced : \A q \in SetRefs \ Referenced : r <= q

\* subscribe(docId, res): the client joins the document's Set, which is
\* created when the map has no entry; the close handler keeps docId, the Set
\* and the client.
Subscribe(d, c) ==
  /\ sinks[c] = None
  /\ LET set == IF channels[d] = None THEN NewSet ELSE channels[d][1] IN
       /\ channels' = [channels EXCEPT ![d] = Some(set)]
       /\ sets' = [sets EXCEPT ![set] = IF channels[d] = None THEN {c} ELSE @ \cup {c}]
       /\ sinks' = [sinks EXCEPT ![c] = Some([docId |-> d, set |-> set, open |-> TRUE])]
  /\ UNCHANGED <<documents, versions, now, columns, session, epoch, events, changes, loading, restores, inbox, clients, titles>>

\* The connection of a response is lost; its 'close' event is yet to be
\* emitted.  From here a write to the response fails.
SinkBreaks(c) ==
  /\ sinks[c] # None
  /\ sinks[c][1].open
  /\ sinks' = [sinks EXCEPT ![c] = Some([@[1] EXCEPT !.open = FALSE])]
  /\ UNCHANGED <<documents, versions, now, columns, session, epoch, events, changes, loading, restores, channels, sets, inbox, clients, titles>>

\* A Set that keeps the client it is asked to delete.
deleteNothing(set, client) == set

\* set.delete(client)
delete(set, client) == set \ {client}

\* res.on('close'): the client leaves the Set the handler kept, and when that
\* Set is empty the document's entry is removed from the map.
Close(c) ==
  /\ sinks[c] # None
  /\ LET set == sinks[c][1].set
         d == sinks[c][1].docId
     IN /\ sets' = [sets EXCEPT ![set] = delete(@, c)]
        /\ channels' = IF delete(sets[set], c) = {}
                       THEN [channels EXCEPT ![d] = None]
                       ELSE channels
  /\ sinks' = [sinks EXCEPT ![c] = None]
  /\ UNCHANGED <<documents, versions, now, columns, session, epoch, events, changes, loading, restores, inbox, clients, titles>>

\* es.addEventListener('restore'): replace the whole text unless it is the
\* incoming text already.
restoreListener(doc, c, incoming) ==
  IF toString(doc) # incoming THEN insert(deleteAll(doc), c, incoming) ELSE doc

\* The browser takes the next event of its EventSource.
ClientEvent(c) ==
  /\ inbox[c] # <<>>
  /\ inbox' = [inbox EXCEPT ![c] = Tail(@)]
  /\ IF Head(inbox[c]).event = "restore"
     THEN /\ ydoc' = [ydoc EXCEPT ![c] = restoreListener(@, c, Head(inbox[c]).data)]
          /\ seen' = [seen EXCEPT ![c] = @ + 1]
     ELSE UNCHANGED <<ydoc, seen>>
  /\ UNCHANGED <<documents, versions, now, columns, session, epoch, events, changes, loading, restores, channels, sets, sinks, titles>>

\* MonacoBinding: a keystroke in the editor inserts into the browser's Y.Text.
ClientTypes(c) ==
  /\ MaxK(ydoc[c]) < MaxKeys
  /\ \E ch \in Chars : ydoc' = [ydoc EXCEPT ![c] = insert(@, c, ch)]
  /\ UNCHANGED <<documents, versions, now, columns, session, epoch, events, changes,
                 loading, restores, fanout, seen, titles>>

\* HocuspocusProvider sends the browser's state to the server.
ClientPush(c) ==
  /\ Deliver(docId, encodeStateAsUpdate(ydoc[c]))

\* HocuspocusProvider receives the server's state.
ClientPull(c) ==
  /\ session[docId] # None
  /\ ydoc[c] # applyUpdate(ydoc[c], encodeStateAsUpdate(session[docId][1]))
  /\ ydoc' = [ydoc EXCEPT ![c] = applyUpdate(@, encodeStateAsUpdate(session[docId][1]))]
  /\ UNCHANGED <<documents, versions, now, columns, session, epoch, events, changes, loading, restores, fanout, seen, titles>>

\* ---------------------------------------------------------------- clock
Tick ==
  /\ now + TickStep <= MaxTime
  /\ now' = now + TickStep
  /\ UNCHANGED <<columns, documents, versions, session, epoch, events, changes, loading, restores, fanout, clients, titles>>

\* -------------------------------------------------------- specifications
Live == {"d1"}

\* Reconciliation: sessions come and go, merge events are persisted one after
\* the other, restores run beside them and the store may fail.
Next ==
  \/ \E d \in Live : LoadSelect(d)
  \/ \E d \in Live : LoadInsert(d)
  \/ \E d \in Live : Unload(d)
  \/ \E d \in Live : changes = {} /\ PeerTypes(d)
  \/ \E h \in changes : ChangeUpdate(h)
  \/ \E h \in changes : ChangeGate(h)
  \/ \E h \in changes : ChangeInsert(h)
  \/ \E h \in changes : ChangeFail(h)
  \/ \E d \in Live, v \in 1..(Len(versions) + 1) : RestoreSelect(d, v)
  \/ \E h \in restores : RestoreUpdate(h)
  \/ \E h \in restores : RestoreInsert(h)
  \/ \E h \in restores : RestorePublish(h)
  \/ \E h \in restores : RestoreFail(h)

Spec == Init /\ [][Next]_vars

\* The durable row under every writer: overlapping onChange invocations, a
\* restore and the title routes, and sessions acquired in between.
NextStore ==
  \/ \E d \in Live : LoadSelect(d)
  \/ \E d \in Live : LoadInsert(d)
  \/ \E d \in Live : Unload(d)
  \/ \E d \in Live : PeerTypes(d)
  \/ \E h \in changes : ChangeUpdate(h)
  \/ \E h \in changes : ChangeGate(h)
  \/ \E h \in changes : ChangeInsert(h)
  \/ \E d \in Live, v \in 1..(Len(versions) + 1) : restores = {} /\ RestoreSelect(d, v)
  \/ \E h \in restores : RestoreUpdate(h)
  \/ \E h \in restores : RestoreInsert(h)
  \/ \E h \in restores : RestorePublish(h)
  \/ \E d \in Live, t \in TitleInputs : AdminTitle(d, t)
  \/ \E d \in Live, t \in TitleInputs : PatchTitle(d, t)
  \/ \E h \in titles : TitleUpdate(h)
  \/ \E h \in titles : TitlePublish(h)

SpecStore == Init /\ [][NextStore]_vars

\* Snapshotting: overlapping onChange invocations against the clock.
NextSnapshot ==
  \/ \E d \in Live : LoadSelect(d)
  \/ \E d \in Live : LoadInsert(d)
  \/ \E d \in Live : PeerTypes(d)
  \/ \E h \in changes : ChangeUpdate(h)
  \/ \E h \in changes : ChangeGate(h)
  \/ \E h \in changes : ChangeInsert(h)
  \/ Tick

SpecSnapshot == Init /\ [][NextSnapshot]_vars

\* Two browsers on a document an earlier session left behind: its text is "b"
\* and its one Version, taken before the text was replaced, is "a".
EarlierDoc == insert(deleteAll(insert(EmptyDoc, 3, "a")), 3, "b")

InitPeers ==
  /\ columns = Deployed
  /\ documents = [d \in Docs |->
       IF d = docId
       THEN Some([current_text |-> toString(EarlierDoc),
                  ystate |-> Some(encodeStateAsUpdate(EarlierDoc)), title |-> ""])
       ELSE None]
  /\ versions = <<[id |-> 1, document_id |-> docId, text |-> "a", created_at |-> 0,
                   by |-> "merge"]>>
  /\ now = SnapshotWindow
  /\ session = [d \in Docs |-> None]
  /\ epoch = [d \in Docs |-> 0]
  /\ events = [d \in Docs |-> 0]
  /\ changes = {}
  /\ loading = [d \in Docs |-> 0]
  /\ restores = {}
  /\ channels = [d \in Docs |-> None]
  /\ sets = [r \in SetRefs |-> {}]
  /\ sinks = [s \in Clients |-> None]
  /\ inbox = [s \in Clients |-> <<>>]
  /\ ydoc = [c \in Clients |-> EmptyDoc]
  /\ seen = [c \in Clients |-> 0]
  /\ titles = {}

\* Both browsers are connected and hold the loaded document's state.
Attached ==
  /\ session[docId] # None
  /\ \A c \in Clients : ydoc[c] = session[docId][1]

NextPeers ==
  \/ LoadSelect(docId)
  \/ \E c \in Clients : Subscribe(docId, c)
  \/ \E c \in Clients : Attached /\ restores = {} /\ ClientTypes(c)
  \/ \E c \in Clients : ClientPull(c)
  \/ \E c \in Clients : ClientPush(c)
  \/ \E c \in Clients : ClientEvent(c)
  \/ \E h \in changes : ChangeUpdate(h)
  \/ \E h \in changes : ChangeGate(h)
  \/ \E h \in changes : ChangeInsert(h)
  \/ \E v \in 1..Len(versions) : Attached /\ restores = {} /\ RestoreSelect(docId, v)
  \/ \E h \in restores : RestoreUpdate(h)
  \/ \E h \in restores : RestoreInsert(h)
  \/ \E h \in restores : RestorePublish(h)

SpecPeers == InitPeers /\ [][NextPeers]_vars

\* The server starts on an empty database: table documents is the one
\* migrate() creates.
InitFresh ==
  /\ columns = migrate
  /\ documents = [d \in Docs |-> None]
  /\ versions = <<>>
  /\ now = 0
  /\ session = [d \in Docs |-> None]
  /\ epoch = [d \in Docs |-> 0]
  /\ events = [d \in Docs |-> 0]
  /\ changes = {}
  /\ loading = [d \in Docs |-> 0]
  /\ restores = {}
  /\ channels = [d \in Docs |-> None]
  /\ sets = [r \in SetRefs |-> {}]
  /\ sinks = [s \in Clients |-> None]
  /\ inbox = [s \in Clients |-> <<>>]
  /\ ydoc = [c \in Clients |-> EmptyDoc]
  /\ seen = [c \in Clients |-> 0]
  /\ titles = {}

\* Documents are created, opened, titled and watched.
NextFresh ==
  \/ \E d \in Docs : NewDocument(d)
  \/ \E d \in Docs : LoadSelect(d)
  \/ \E d \in Docs, t \in TitleInputs : AdminTitle(d, t)
  \/ \E d \in Docs, t \in TitleInputs : PatchTitle(d, t)
  \/ \E h \in titles : TitleUpdate(h)
  \/ \E h \in titles : TitlePublish(h)
  \/ \E d \in Docs, c \in Clients : Subscribe(d, c)
  \/ \E c \in Clients : ClientEvent(c)

SpecFresh == InitFresh /\ [][NextFresh]_vars

\* The server starts on a database that holds one document with text "a":
\* its ystate is NULL, the state that text came from, or bytes that are not
\* an update.
StoredStates ==
  {None, Some(encodeStateAsUpdate(insert(EmptyDoc, 3, "a"))), Some(Corrupt)}

InitStored ==
  /\ columns = Deployed
  /\ \E y \in StoredStates :
       documents = [d \in Docs |->
         IF d = docId
         THEN Some([current_text |-> "a", ystate |-> y, title |-> ""])
         ELSE None]
  /\ versions = <<[id |-> 1, document_id |-> docId, text |-> "a", created_at |-> 0,
                   by |-> "merge"]>>
  /\ now = SnapshotWindow
  /\ session = [d \in Docs |-> None]
  /\ epoch = [d \in Docs |-> 0]
  /\ events = [d \in Docs |-> 0]
  /\ changes = {}
  /\ loading = [d \in Docs |-> 0]
  /\ restores = {}
  /\ channels = [d \in Docs |-> None]
  /\ sets = [r \in SetRefs |-> {}]
  /\ sinks = [s \in Clients |-> None]
  /\ inbox = [s \in Clients |-> <<>>]
  /\ ydoc = [c \in Clients |-> EmptyDoc]
  /\ seen = [c \in Clients |-> 0]
  /\ titles = {}

NextStored ==
  \/ LoadSelect(docId)
  \/ Unload(docId)
  \/ changes = {} /\ PeerTypes(docId)
  \/ \E h \in changes : ChangeUpdate(h)
  \/ \E h \in changes : ChangeGate(h)
  \/ \E h \in changes : ChangeInsert(h)
  \/ \E v \in 1..Len(versions) : restores = {} /\ RestoreSelect(docId, v)
  \/ \E h \in restores : RestoreUpdate(h)
  \/ \E h \in restores : RestoreInsert(h)
  \/ \E h \in restores : RestorePublish(h)

SpecStored == InitStored /\ [][NextStored]_vars

\* Merge events whose writes may be rejected, over sessions that come and go.
NextRetry ==
  \/ \E d \in Live : LoadSelect(d)
  \/ \E d \in Live : LoadInsert(d)
  \/ \E d \in Live : Unload(d)
  \/ \E d \in Live : changes = {} /\ PeerTypes(d)
  \/ \E h \in changes : ChangeUpdate(h)
  \/ \E h \in changes : ChangeGate(h)
  \/ \E h \in changes : ChangeInsert(h)
  \/ \E h \in changes : ChangeFail(h)

SpecRetry == Init /\ [][NextRetry]_vars

\* Two documents with viewers: the document an earlier session left behind
\* and one POST /admin/docs has created since.
InitFanout ==
  /\ columns = Deployed
  /\ documents = [d \in Docs |->
       IF d = docId
       THEN Some([current_text |-> toString(EarlierDoc),
                  ystate |-> Some(encodeStateAsUpdate(EarlierDoc)), title |-> ""])
       ELSE Some([current_text |-> "", ystate |-> None, title |-> "Untitled"])]
  /\ versions = <<[id |-> 1, document_id |-> docId, text |-> "a", created_at |-> 0,
                   by |-> "merge"]>>
  /\ now = SnapshotWindow
  /\ session = [d \in Docs |-> None]
  /\ epoch = [d \in Docs |-> 0]
  /\ events = [d \in Docs |-> 0]
  /\ changes = {}
  /\ loading = [d \in Docs |-> 0]
  /\ restores = {}
  /\ channels = [d \in Docs |-> None]
  /\ sets = [r \in SetRefs |-> {}]
  /\ sinks = [s \in Clients |-> None]
  /\ inbox = [s \in Clients |-> <<>>]
  /\ ydoc = [c \in Clients |-> EmptyDoc]
  /\ seen = [c \in Clients |-> 0]
  /\ titles = {}

\* The fan-out: viewers of both documents come and go, their connections
\* break, and a restore and the admin's title change publish to them.
NextFanout ==
  \/ \E d \in Docs, c \in Clients : Subscribe(d, c)
  \/ \E c \in Clients : SinkBreaks(c)
  \/ \E c \in Clients : Close(c)
  \/ \E d \in Docs, v \in 1..(Len(versions) + 1) : restores = {} /\ RestoreSelect(d, v)
  \/ \E h \in restores : RestoreUpdate(h)
  \/ \E h \in restores : RestoreInsert(h)
  \/ \E h \in restores : RestorePublish(h)
  \/ \E d \in Docs, t \in TitleInputs : AdminTitle(d, t)
  \/ \E h \in titles : TitleUpdate(h)
  \/ \E h \in titles : TitlePublish(h)

SpecFanout == InitFanout /\ [][NextFanout]_vars

\* The HTTP routes and the fan-out: viewers of both documents come and go
\* while restores and title changes are requested, for documents and
\* versions that exist and for ones that do not.
NextRoutes ==
  \/ \E d \in Docs : NewDocument(d)
  \/ \E d \in Docs, c \in Clients : Subscribe(d, c)
  \/ \E c \in Clients : SinkBreaks(c)
  \/ \E c \in Clients : Close(c)
  \/ \E c \in Clients : ClientEvent(c)
  \/ \E d \in Docs, v \in 1..(Len(versions) + 1) : restores = {} /\ RestoreSelect(d, v)
  \/ \E h \in restores : RestoreUpdate(h)
  \/ \E h \in restores : RestoreInsert(h)
  \/ \E h \in restores : RestorePublish(h)
  \/ \E d \in Docs, t \in TitleInputs \cup LongTitles : AdminTitle(d, t)
  \/ \E d \in Docs, t \in TitleInputs \cup LongTitles : PatchTitle(d, t)
  \/ \E h \in titles : TitleUpdate(h)
  \/ \E h \in titles : TitlePublish(h)

SpecRoutes == InitPeers /\ [][NextRoutes]_vars

\* Two documents in service side by side: each is acquired and edited, its
\* merge events are persisted one at a time, and meanwhile one document is
\* restored or retitled and viewers subscribe and leave.
NextDocs ==
  \/ \E d \in Docs : LoadSelect(d)
  \/ \E d \in Docs : changes = {} /\ events[d] = 0 /\ PeerTypes(d)
  \/ \E h \in changes : ChangeUpdate(h)
  \/ \E h \in changes : ChangeGate(h)
  \/ \E h \in changes : ChangeInsert(h)
  \/ \E d \in Docs, v \in 1..Len(versions) : restores = {} /\ RestoreSelect(d, v)
  \/ \E h \in restores : RestoreUpdate(h)
  \/ \E h \in restores : RestoreInsert(h)
  \/ \E h \in restores : RestorePublish(h)
  \/ \E d \in Docs, t \in TitleInputs : AdminTitle(d, t)
  \/ \E h \in titles : TitleUpdate(h)
  \/ \E h \in titles : TitlePublish(h)
  \/ \E d \in Docs : Subscribe(d, 1)
  \/ Close(1)

SpecDocs == InitFanout /\ [][NextDocs]_vars

\* Title changes by both routes while the documents are acquired and edited
\* and viewers subscribe.
NextTitles ==
  \/ \E d \in Docs : LoadSelect(d)
  \/ changes = {} /\ PeerTypes(docId)
  \/ \E h \in changes : ChangeUpdate(h)
  \/ \E h \in changes : ChangeGate(h)
  \/ \E h \in changes : ChangeInsert(h)
  \/ \E d \in Docs, c \in Clients : Subscribe(d, c)
  \/ \E d \in Docs, t \in TitleInputs : AdminTitle(d, t)
  \/ \E d \in Docs, t \in TitleInputs : PatchTitle(d, t)
  \/ \E h \in titles : TitleUpdate(h)
  \/ \E h \in titles : TitlePublish(h)

SpecTitles == InitFanout /\ [][NextTitles]_vars

\* One document's events on their way to its viewers: a restore and a title
\* change publish, and each browser handles what its response has carried.
NextOrder ==
  \/ \E c \in Clients : Subscribe(docId, c)
  \/ \E c \in Clients : Close(c)
  \/ \E c \in Clients : ClientEvent(c)
  \/ \E v \in 1..Len(versions) : restores = {} /\ RestoreSelect(docId, v)
  \/ \E h \in restores : RestoreUpdate(h)
  \/ \E h \in restores : RestoreInsert(h)
  \/ \E h \in restores : RestorePublish(h)
  \/ \E t \in TitleInputs : AdminTitle(docId, t)
  \/ \E h \in titles : TitleUpdate(h)
  \/ \E h \in titles : TitlePublish(h)

SpecOrder == InitFanout /\ [][NextOrder]_vars

\* Restores and title changes against a store that may reject any of their
\* writes, with viewers subscribed.
NextFailing ==
  \/ \E d \in Docs, c \in Clients : Subscribe(d, c)
  \/ \E d \in Docs, v \in 1..Len(versions) : restores = {} /\ RestoreSelect(d, v)
  \/ \E h \in restores : RestoreUpdate(h)
  \/ \E h \in restores : RestoreInsert(h)
  \/ \E h \in restores : RestorePublish(h)
  \/ \E h \in restores : RestoreFail(h)
  \/ \E d \in Docs, t \in TitleInputs : AdminTitle(d, t)
  \/ \E d \in Docs, t \in TitleInputs : PatchTitle(d, t)
  \/ \E h \in titles : TitleUpdate(h)
  \/ \E h \in titles : TitlePublish(h)
  \/ \E h \in titles : TitleFail(h)

SpecFailing == InitFanout /\ [][NextFailing]_vars

\* The server starts on a document whose earlier session left two versions
\* behind: "a", and "b" a snapshot window later.
InitHistory ==
  /\ columns = Deployed
  /\ documents = [d \in Docs |->
       IF d = docId
       THEN Some([current_text |-> toString(EarlierDoc),
                  ystate |-> Some(encodeStateAsUpdate(EarlierDoc)), title |-> ""])
       ELSE None]
  /\ versions = <<[id |-> 1, document_id |-> docId, text |-> "a", created_at |-> 0,
                   by |-> "merge"],
                  [id |-> 2, document_id |-> docId, text |-> "b",
                   created_at |-> SnapshotWindow, by |-> "merge"]>>
  /\ now = 2 * SnapshotWindow
  /\ session = [d \in Docs |-> None]
  /\ epoch = [d \in Docs |-> 0]
  /\ events = [d \in Docs |-> 0]
  /\ changes = {}
  /\ loading = [d \in Docs |-> 0]
  /\ restores = {}
  /\ channels = [d \in Docs |-> None]
  /\ sets = [r \in SetRefs |-> {}]
  /\ sinks = [s \in Clients |-> None]
  /\ inbox = [s \in Clients |-> <<>>]
  /\ ydoc = [c \in Clients |-> EmptyDoc]
  /\ seen = [c \in Clients |-> 0]
  /\ titles = {}

\* Restore requests for the document served together, each awaiting its
\* own statements, while viewers subscribe.
NextRace ==
  \/ \E c \in Clients : Subscribe(docId, c)
  \/ \E v \in 1..Len(versions) : RestoreSelect(docId, v)
  \/ \E h \in restores : RestoreUpdate(h)
  \/ \E h \in restores : RestoreInsert(h)
  \/ \E h \in restores : RestorePublish(h)

SpecRace == InitHistory /\ [][NextRace]_vars

\* Connections for identifiers the store has never seen arrive together and
\* each runs onLoadDocument, so that several hooks of one identifier await
\* their SELECT and INSERT at once; meanwhile the admin retitles.
NextAcquire ==
  \/ \E d \in Docs : onLoadDocument(d)
  \/ \E d \in Docs : LoadInsert(d)
  \/ \E d \in Docs, t \in TitleInputs : AdminTitle(d, t)
  \/ \E h \in titles : TitleUpdate(h)
  \/ \E h \in titles : TitlePublish(h)
  \/ \E d \in Docs, c \in Clients : Subscribe(d, c)

SpecAcquire == Init /\ [][NextAcquire]_vars

\* No merge event, restore or title change is being served.
Quiet ==
  /\ changes = {}
  /\ \A h \in restores : h.pc \in {"done", "notfound"}
  /\ \A g \in titles : g.pc = "done"

\* Two documents, each with its session, its requests and its viewers; the
\* server takes up a merge event, a restore or a title change when it has
\* finished the one before, and viewers of either document come and go.
NextIsolation ==
  \/ \E d \in Docs : LoadSelect(d)
  \/ \E d \in Docs : Quiet /\ events[d] = 0 /\ PeerTypes(d)
  \/ \E h \in changes : ChangeUpdate(h)
  \/ \E h \in changes : ChangeGate(h)
  \/ \E h \in changes : ChangeInsert(h)
  \/ \E d \in Docs, v \in 1..Len(versions) : Quiet /\ restores = {} /\ RestoreSelect(d, v)
  \/ \E h \in restores : RestoreUpdate(h)
  \/ \E h \in restores : RestoreInsert(h)
  \/ \E h \in restores : RestorePublish(h)
  \/ \E d \in Docs, t \in TitleInputs : Quiet /\ titles = {} /\ AdminTitle(d, t)
  \/ \E h \in titles : TitleUpdate(h)
  \/ \E h \in titles : TitlePublish(h)
  \/ \E d \in Docs, c \in Clients : Subscribe(d, c)
  \/ \E c \in Clients : Close(c)

SpecIsolation == InitFanout /\ [][NextIsolation]_vars
\* ------------------------------------------------------------ properties
\* Restore request h takes the step that moves it from one place to the next.
RestoreStep(h, from, to) ==
  /\ h \in restores
  /\ h.pc = from
  /\ \E g \in restores' : g.req = h.req /\ g.pc = to

VersionTexts(d) ==
  {versions[i].text : i \in {j \in 1..Len(versions) : versions[j].document_id = d}}

\* C1: once a restore has overwritten the row, the text it overwrote is in
\* the document's version log.
RestoreCapturesPriorText ==
  \A h \in restores :
    h.before # None => h.before[1].current_text \in VersionTexts(h.id)

\* C2: in the step where the version INSERT of a restore fails, the row is
\* the row as it was before the restore (text and replica state unchanged).
FailedCaptureLeavesRow ==
  [][\A h \in restores :
       RestoreStep(h, "insert", "failed") => documents'[h.id] = h.before]_vars

\* C3: restoring V and then at once the Version that restore appended writes
\* back the text the first restore overwrote.
RestoreRoundTrip ==
  [][\A h1, h2 \in restores :
       ( /\ h1.captured # 0
         /\ h2.versionId = h1.captured
         /\ documents[h2.id] = Some([h1.before[1] EXCEPT !.current_text = h1.text,
                                                          !.ystate = None])
         /\ RestoreStep(h2, "update", "insert") )
       => documents'[h2.id][1].current_text = h1.before[1].current_text]_vars

\* C5: when a restore completes while the document is loaded, the loaded
\* replica's text is the restored text.
RestoreReplacesLiveReplica ==
  [][\A h \in restores :
       RestoreStep(h, "publish", "done") /\ session[h.id] # None
       => toString(session'[h.id][1]) = h.text]_vars

\* C6: the UPDATE of a restore leaves the row with the Version's text and a
\* null ystate, and a session acquired while the row is as the restore left
\* it holds that text.
RestoreSeedsNextSession ==
  [][\A h \in restores :
       /\ RestoreStep(h, "update", "insert")
          => /\ documents'[h.id][1].current_text = versions[h.versionId].text
             /\ documents'[h.id][1].ystate = None
       /\ ( /\ h.before # None
            /\ documents[h.id][1].current_text = versions[h.versionId].text
            /\ documents[h.id][1].ystate = None
            /\ session[h.id] = None
            /\ session'[h.id] # None )
          => toString(session'[h.id][1]) = versions[h.versionId].text]_vars

\* C6 witness: a restore overwrote a different text and a session loaded
\* afterwards holds the restored text.
RestoreThenAcquire ==
  \E h \in restores :
    /\ h.pc = "done"
    /\ h.before[1].current_text # h.text
    /\ documents[h.id][1].ystate = None
    /\ epoch[h.id] = 2
    /\ session[h.id] # None
    /\ toString(session[h.id][1]) = h.text

MergeVersions(d) ==
  {i \in 1..Len(versions) : versions[i].document_id = d /\ versions[i].by = "merge"}

\* onChange invocations of d that have returned
Returned(d) == events[d] - Cardinality({h \in changes : h.id = d})

\* C7: the merge events of the first 30 seconds create exactly one Version,
\* and every later window of 30 seconds at most one more.
OneSnapshotPerWindow ==
  \A d \in Docs :
    /\ Cardinality(MergeVersions(d)) <= (now \div SnapshotWindow) + 1
    /\ Returned(d) > 0 => MergeVersions(d) # {}

\* C8: no two onChange invocations of a document both append a Version when
\* neither saw one in its trailing 30 seconds: two Versions appended by
\* onChange are at least 30 seconds apart.
SnapshotGateAtomic ==
  \A d \in Docs : \A i, j \in MergeVersions(d) :
    i < j => versions[j].created_at - versions[i].created_at >= SnapshotWindow

\* C9: once every onChange of a loaded document has returned, the stored
\* current_text is the loaded replica's text.
PersistedInDeliveryOrder ==
  \A d \in Docs :
    ( /\ session[d] # None
      /\ documents[d] # None
      /\ events[d] > 0
      /\ \A h \in changes : h.id # d )
    => documents[d][1].current_text = toString(session[d][1])

\* C10: a stored ystate materializes to the stored current_text.
RowConsistent ==
  \A d \in Docs :
    (documents[d] # None /\ documents[d][1].ystate # None)
    => toString(applyUpdate(EmptyDoc, documents[d][1].ystate[1]))
         = documents[d][1].current_text

\* C10 witness: after a restore and a title change, a merge event has stored
\* a replica state with text.
RowWrittenByAll ==
  \E d \in Docs :
    /\ documents[d] # None
    /\ documents[d][1].ystate # None
    /\ documents[d][1].current_text # ""
    /\ documents[d][1].title # ""
    /\ \E h \in restores : h.id = d /\ h.pc = "done"

\* C4: after one restore that every browser has handled, with nothing left
\* to exchange, every replica's text is the restored text.
Converged ==
  /\ session[docId] # None
  /\ changes = {}
  /\ \A c \in Clients : inbox[c] = <<>> /\ ydoc[c] = session[docId][1]

PeersConvergeToRestored ==
  \A h \in restores :
    (h.pc = "done" /\ Converged /\ \A c \in Clients : seen[c] = 1)
    => /\ toString(session[docId][1]) = h.text
       /\ \A c \in Clients : toString(ydoc[c]) = h.text

\* A query of onChange invocation h rejects: the invocation ends and neither
\* table is written.
ChangeFailStep(h) ==
  /\ h \in changes
  /\ h.pc \in {"update", "insert"}
  /\ \A g \in changes' : g.id # h.id \/ g.seq # h.seq
  /\ store' = store

\* The UPDATE of onChange invocation h executes.
ChangeUpdateStep(h) ==
  /\ h \in changes
  /\ h.pc = "update"
  /\ [h EXCEPT !.pc = "gate"] \in changes'

\* C11: a rejected write of onChange leaves the loaded replica as it is, and
\* the UPDATE of a later onChange stores the whole text and state of the
\* replica the session has held since it was acquired, the edits whose
\* writes were rejected included.
FailedWriteCarriedForward ==
  [][\A h \in changes :
       /\ ChangeFailStep(h) => session' = session
       /\ ( /\ ChangeUpdateStep(h)
            /\ session[h.id] # None
            /\ epoch[h.id] = 1 )
          => /\ documents'[h.id][1].current_text = toString(session[h.id][1])
             /\ documents'[h.id][1].ystate
                  = Some(encodeStateAsUpdate(session[h.id][1]))]_vars

\* C11 witness: the first merge event's writes were rejected (the row is
\* written, yet the first Version is the second event's), and the row holds
\* the replica's whole text.
SecondWriteCarriesFirstEdit ==
  /\ session[docId] # None
  /\ epoch[docId] = 1
  /\ events[docId] = 2
  /\ changes = {}
  /\ restores = {}
  /\ Len(versions) = 1
  /\ versions[1].text = "aa"
  /\ documents[docId][1].current_text = "aa"
  /\ toString(session[docId][1]) = "aa"

\* C12: the SELECT of onLoadDocument on an existing row yields a Y.Doc whose
\* text is the row's current_text; on a missing row the hook goes on to its
\* INSERT, after which the row exists with empty text and the Y.Doc is empty.
AcquireYieldsStoredText ==
  [][\A d \in Docs :
       /\ (epoch'[d] = epoch[d] + 1 /\ documents[d] # None)
          => /\ session'[d] # None
             /\ toString(session'[d][1]) = documents[d][1].current_text
       /\ (epoch'[d] = epoch[d] + 1 /\ documents[d] = None)
          => loading'[d] > 0
       /\ loading'[d] < loading[d]
          => /\ documents'[d] # None
             /\ documents'[d][1].current_text = ""
             /\ session'[d] = Some(EmptyDoc)]_vars

\* C13: onLoadDocument on a row whose ystate cannot be decoded and whose
\* current_text is not empty returns a Y.Doc with that text.
CorruptStateFallsBack ==
  [][\A d \in Docs :
       ( /\ epoch'[d] = epoch[d] + 1
         /\ documents[d] # None
         /\ documents[d][1].ystate # None
         /\ ~Decodes(documents[d][1].ystate[1])
         /\ documents[d][1].current_text # "" )
       => /\ session'[d] # None
          /\ toString(session'[d][1]) = documents[d][1].current_text]_vars

\* Title request h takes the step that moves it from one place to the next.
TitleStep(h, from, to) ==
  /\ h \in titles
  /\ h.pc = from
  /\ \E g \in titles' : g.req = h.req /\ g.pc = to

\* The step writes the event to the responses open on document d and to no
\* other response.
DeliveredTo(d, event, data) ==
  \A s \in Clients :
    inbox'[s] = IF sinks[s] # None /\ sinks[s][1].docId = d /\ sinks[s][1].open
                THEN Append(inbox[s], [event |-> event, data |-> data])
                ELSE inbox[s]

\* C14: a publish call writes its payload to every open response subscribed
\* to its document and to no response subscribed to another document.
PublishReachesItsDocument ==
  [][/\ \A h \in restores :
          RestoreStep(h, "publish", "done") => DeliveredTo(h.id, "restore", h.text)
     /\ \A h \in titles :
          TitleStep(h, "publish", "done") => DeliveredTo(h.id, "title", h.title.s)]_vars

\* C14 witness: with viewers open on both documents, the restore of one and
\* the title change of the other each reached its own viewer alone.
EachViewerItsOwnEvent ==
  /\ \A c \in Clients : sinks[c] # None
  /\ sinks[1][1].docId = "d1" /\ sinks[1][1].open
  /\ sinks[2][1].docId = "d2" /\ sinks[2][1].open
  /\ \E h \in restores : h.pc = "done" /\ h.id = "d1"
                          /\ inbox[1] = <<[event |-> "restore", data |-> h.text]>>
  /\ \E h \in titles : h.pc = "done" /\ h.id = "d2"
                        /\ inbox[2] = <<[event |-> "title", data |-> h.title.s]>>

\* C15: in a publish call where the write to one client fails, every other
\* client of the document whose response is open is written to.
FailedWriteSkipsOnlyItsSink ==
  [][/\ \A h \in restores :
          (RestoreStep(h, "publish", "done") /\ FailedWrites(h.id) # {})
          => \A s \in Subscribers(h.id) \ FailedWrites(h.id) :
               inbox'[s] = Append(inbox[s], [event |-> "restore", data |-> h.text])
     /\ \A h \in titles :
          (TitleStep(h, "publish", "done") /\ FailedWrites(h.id) # {})
          => \A s \in Subscribers(h.id) \ FailedWrites(h.id) :
               inbox'[s] = Append(inbox[s], [event |-> "title", data |-> h.title.s])]_vars

\* C15 witness: a restore's publish could not write to one client and its
\* event is in the inbox of another client of the same document.
OtherSinkStillServed ==
  \E h \in restores :
    /\ h.pc = "done"
    /\ h.unwritten # {}
    /\ \E s \in Clients \ h.unwritten :
         /\ s \in Subscribers(h.id)
         /\ inbox[s] = <<[event |-> "restore", data |-> h.text]>>

\* Client c is in the Set of document d after the step.
SubscribedAfter(d, c) ==
  IF channels'[d] = None THEN FALSE ELSE c \in sets'[channels'[d][1]]

\* C16: when a publish call returns, the clients whose write failed are no
\* longer in the document's Set.
FailedSinkDropped ==
  [][/\ \A h \in restores :
          RestoreStep(h, "publish", "done")
          => \A c \in FailedWrites(h.id) : ~SubscribedAfter(h.id, c)
     /\ \A h \in titles :
          TitleStep(h, "publish", "done")
          => \A c \in FailedWrites(h.id) : ~SubscribedAfter(h.id, c)]_vars

\* C17: a sink whose close handler has run is in no document's Set, and no
\* entry of the map refers to an empty Set.
ClosedSinkReleased ==
  /\ \A c \in Clients : sinks[c] = None => \A d \in Docs : c \notin Subscribers(d)
  /\ \A d \in Docs : channels[d] # None => sets[channels[d][1]] # {}

\* C17 witness: of two viewers of a document one has closed, after it was
\* served an event, and the entry lives on with the other.
OneOfTwoClosed ==
  /\ sinks[1] = None
  /\ inbox[1] # <<>>
  /\ sinks[2] # None
  /\ Subscribers("d1") = {2}
  /\ inbox[2] # <<>>

\* C18: a title request with more than 512 characters ends as invalid, on
\* either route; no row holds such a title and no sink was sent one.
LongTitleRejected ==
  /\ \A h \in titles : h.title.length > TitleLimit => h.pc = "invalid"
  /\ \A d \in Docs :
       documents[d] # None => documents[d][1].title \notin {t.s : t \in LongTitles}
  /\ \A c \in Clients : \A i \in 1..Len(inbox[c]) :
       inbox[c][i].event = "title" => inbox[c][i].data \notin {t.s : t \in LongTitles}

\* The version id of restore request g names no Version of g's document.
NotInLog(g) ==
  IF g.versionId \in 1..Len(versions)
  THEN versions[g.versionId].document_id # g.id
  ELSE TRUE

UnknownDocumentTitleNotFound ==
  \A h \in titles :
    documents[h.id] = None => h.pc \notin {"publish", "done"}

\* C21: the version log is append-only: no step of a merge persistence, a
\* restore, a title change or an acquisition alters or removes a row the log
\* holds, and a step appends at most one row.
VersionsAppendOnly ==
  [][/\ Len(versions') \in {Len(versions), Len(versions) + 1}
     /\ \A i \in 1..Len(versions) : versions'[i] = versions[i]]_vars

\* A merge event and a restore have each appended their version to the log
\* the document started with, the title was changed and the document is loaded.
LogGrownByMergeAndRestore ==
  /\ Len(versions) = 3
  /\ \E i, j \in 2..3 : versions[i].by = "merge" /\ versions[j].by = "restore"
  /\ \E h \in restores : h.pc = "done"
  /\ \E g \in titles : g.pc = "done" /\ g.id = docId
  /\ session[docId] # None

\* C22: a title change leaves the document body alone: its UPDATE changes
\* the title of its row and nothing else (not the text, the replica state,
\* the version log or the live replica), and its publish step changes
\* nothing stored and writes one title event, with the title the UPDATE
\* stored, to the writable subscribers of the document.
TitleChangeLeavesBody ==
  [][\A h \in titles :
       /\ TitleStep(h, "update", "publish") =>
            /\ versions' = versions
            /\ session' = session
            /\ inbox' = inbox
            /\ \A d \in Docs :
                 documents'[d] = IF d = h.id /\ documents[d] # None
                                 THEN Some([documents[d][1] EXCEPT !.title = h.title.s])
                                 ELSE documents[d]
       /\ TitleStep(h, "publish", "done") =>
            /\ store' = store
            /\ session' = session
            /\ \A c \in Clients :
                 inbox'[c] = IF c \in Subscribers(h.id) /\ Writable(c)
                             THEN Append(inbox[c], [event |-> "title", data |-> h.title.s])
                             ELSE inbox[c]]_vars

\* The document was edited in its session and then retitled through the
\* PATCH route: the row holds the new title beside the edited body and the
\* viewer holds the one title event.
RetitledBesideEditedBody ==
  /\ \E h \in titles : h.pc = "done" /\ h.route = "patch" /\ h.id = docId
  /\ documents[docId][1].title = "T"
  /\ documents[docId][1].current_text = "ab"
  /\ documents[docId][1].ystate # None
  /\ session[docId] # None
  /\ inbox[1] = <<[event |-> "title", data |-> "T"]>>

\* C23: a sink receives the events of a document in the order of their
\* publish calls: a publish puts its event behind everything the response
\* already carries, and the browser is handed the oldest event first; no
\* step reorders or drops what is in between.
EventsInPublishOrder ==
  [][\A c \in Clients :
       \/ inbox'[c] = inbox[c]
       \/ /\ inbox[c] # <<>>
          /\ inbox'[c] = Tail(inbox[c])
       \/ /\ Len(inbox'[c]) = Len(inbox[c]) + 1
          /\ SubSeq(inbox'[c], 1, Len(inbox[c])) = inbox[c]]_vars

\* The restore was published before the title change, and viewer 1 has
\* handled the restore event while the title event is still on its way.
RestoreSeenBeforeTitle ==
  /\ \E h \in restores : h.pc = "done" /\ h.id = docId
  /\ \E g \in titles : g.pc = "done" /\ g.id = docId
  /\ seen[1] = 1
  /\ inbox[1] = <<[event |-> "title", data |-> "T"]>>

\* C24: a restore or a title change publishes only after all its writes
\* have succeeded: a request one of whose writes failed stays failed and
\* writes nothing to any sink, a restore reaches its publish with its
\* UPDATE and its INSERT both done, a title change with its UPDATE done,
\* and nothing else writes an event.
PublishOnlyAfterWrites ==
  [][/\ \A h \in restores :
          /\ h.pc = "failed" => h \in restores'
          /\ (h.pc # "failed" /\ RestoreStep(h, h.pc, "failed")) => inbox' = inbox
          /\ RestoreStep(h, "publish", "done") =>
               /\ h.failedAt = ""
               /\ h.before # None
               /\ h.captured \in 1..Len(versions)
               /\ versions[h.captured].text = h.text
     /\ \A g \in titles :
          /\ g.pc = "failed" => g \in titles'
          /\ (g.pc # "failed" /\ TitleStep(g, g.pc, "failed")) => inbox' = inbox
          /\ (g.pc # "publish" /\ TitleStep(g, g.pc, "publish")) =>
               /\ g.pc = "update"
               /\ documents'[g.id] # None => documents'[g.id][1].title = g.title.s
     /\ inbox' # inbox =>
          \/ \E h \in restores : RestoreStep(h, "publish", "done")
          \/ \E g \in titles : TitleStep(g, "publish", "done")]_vars

\* The INSERT of a restore was rejected after its UPDATE had been applied,
\* and the UPDATE of a title change was rejected: the viewer of the document
\* has been written nothing.
WritesRejectedNothingPublished ==
  /\ \E h \in restores : h.pc = "failed" /\ h.failedAt = "insert" /\ h.id = docId
  /\ \E g \in titles : g.pc = "failed" /\ g.id = docId
  /\ Subscribers(docId) = {1}
  /\ Writable(1)
  /\ inbox[1] = <<>>

\* C25: when two restore requests for the document have both completed, the
\* last event a sink subscribed throughout has been written carries the text
\* the document row holds.
LastEventCarriesStoredText ==
  \A c \in Clients :
    ( /\ Cardinality(restores) = 2
      /\ \A h \in restores : h.pc = "done" /\ h.id = docId
      /\ Len(inbox[c]) = 2 )
    => inbox[c][2].data = documents[docId][1].current_text

VersionsOf(log, d) == SelectSeq(log, LAMBDA v : v.document_id = d)

\* The clients of document d in a channels map over a heap of Sets.
SubscribersIn(map, heap, d) == IF map[d] = None THEN {} ELSE heap[map[d][1]]

\* The step leaves the row, the versions and the subscriber set of d alone.
Untouched(d) ==
  /\ documents'[d] = documents[d]
  /\ VersionsOf(versions', d) = VersionsOf(versions, d)
  /\ SubscribersIn(channels', sets', d) = SubscribersIn(channels, sets, d)

\* The document whose events sink c subscribes to or stops receiving.
SinkDocument(c) == IF sinks[c] # None THEN sinks[c][1].docId ELSE sinks'[c][1].docId

\* C27: documents are isolated from each other: a step of a merge event's
\* persistence, of a restore, of a title change, a subscribe or a sink
\* close for document A leaves the row, the versions and the subscriber
\* set of every other document B as they were.
OtherDocumentsUntouched ==
  [][\A A \in Docs : \A B \in Docs \ {A} :
       ( \/ \E h \in changes : h.id = A /\ h \notin changes'
         \/ \E h \in restores : h.id = A /\ h \notin restores'
         \/ \E g \in titles : g.id = A /\ g \notin titles'
         \/ \E c \in Clients : sinks'[c] # sinks[c] /\ SinkDocument(c) = A )
       => Untouched(B)]_vars

\* Document d1 has been edited, restored and retitled and its viewer has
\* left, while d2 kept its row as created and its viewer.
NeighbourKeptThroughout ==
  /\ events[docId] = 1
  /\ \E h \in restores : h.pc = "done" /\ h.id = docId
  /\ \E g \in titles : g.pc = "done" /\ g.id = docId
  /\ VersionsOf(versions, docId) # <<>>
  /\ VersionsOf(versions, "d2") = <<>>
  /\ sinks[1] = None
  /\ inbox[1] # <<>>
  /\ Subscribers("d2") = {2}
  /\ Subscribers(docId) = {}
  /\ documents["d2"] = Some([current_text |-> "", ystate |-> None, title |-> "Untitled"])
====
